---- MODULE Spec2Model ----
(***************************************************************************)
(* Model of the mplbubblegumnif core: the three operations of             *)
(* transaction.rs (create_tree_config, mint_v1, transfer) and the helpers *)
(* of utils.rs they call (parse_pubkey, parse_keypair,                    *)
(* get_recent_blockhash, submit_tx), run against a remote ledger endpoint *)
(* whose answers are nondeterministic.                                    *)
(*                                                                         *)
(* An invocation runs its local code (parsing, decoding, instruction      *)
(* building) in one step up to its first network call; each network call  *)
(* and the signing between them is a step of its own.                     *)
(***************************************************************************)
EXTENDS Integers, Sequences, FiniteSets, TLC

\* ------------------------------------------------------------------ bounds
NumKeys == 2
MaxBlockhash == 2

Keys == 1 .. NumKeys
Inv == {1, 2}
SoloInv == {1}

\* ------------------------------------------------------------ caller texts
\* The base-58 text of key k's 32-byte public key / 64-byte keypair.
PubkeyText(k) == "pk" \o ToString(k)
SecretText(k) == "sk" \o ToString(k)

\* Texts that are no public key: one outside the base-58 alphabet, one that
\* decodes to the wrong number of bytes.
MalformedPubkeyTexts == {"invalid_pubkey", "abc"}
PubkeyTexts == {PubkeyText(k) : k \in Keys} \cup MalformedPubkeyTexts

\* Texts that are no keypair (both are used by the repository's tests).
MalformedSecretTexts == {"invalid_key", "invalid_secret_key"}
SecretTexts == {SecretText(k) : k \in Keys} \cup MalformedSecretTexts

\* leaf_index is a u32; the second value stands for a large index.
LeafIndexes == {0, 2147483647}
MaxDepths == {14}
MaxBufferSizes == {2048}

\* What the endpoint may answer when it fails.
EndpointErrors == {"AccountNotFound", "rate limit"}

\* The Merkle proof of the leaf as it currently stands on the ledger.
LeafProofs ==
  { [root |-> r, data_hash |-> r, creator_hash |-> r, nonce |-> r] : r \in {1, 2} }

\* ------------------------------------------------------------------ errors
Err(kind, msg) == [kind |-> kind, msg |-> msg]
Ok(value) == [kind |-> "Ok", msg |-> value]
NoResult == [kind |-> "none", msg |-> ""]
IsErr(r) == r.kind \notin {"Ok", "none"}

\* --------------------------------------------------------------- key codec
NoKeypair == [pubkey |-> 0, secret |-> 0]

\* Pubkey::from_str: the decoded key, or the ParsePubkeyError text.
Pubkey_from_str(s) ==
  IF \E k \in Keys : PubkeyText(k) = s
    THEN [ok |-> TRUE, pubkey |-> CHOOSE k \in Keys : PubkeyText(k) = s, err |-> ""]
    ELSE IF s = "abc"
      THEN [ok |-> FALSE, pubkey |-> 0, err |-> "String is the wrong size"]
      ELSE [ok |-> FALSE, pubkey |-> 0, err |-> "Invalid Base58 string"]

\* parse_pubkey falling back to the default key on a malformed text.
parse_pubkey_or_default(s) ==
  [ok |-> TRUE, pubkey |-> Pubkey_from_str(s).pubkey, error |-> NoResult]

\* parse_pubkey: Pubkey::from_str, its error mapped to InvalidPubkey.
parse_pubkey(s) ==
  LET r == Pubkey_from_str(s)
  IN  IF r.ok
        THEN [ok |-> TRUE, pubkey |-> r.pubkey, error |-> NoResult]
        ELSE [ok |-> FALSE, pubkey |-> 0, error |-> Err("InvalidPubkey", r.err)]

\* Keypair::from_base58_string unwraps its decoding: it panics on any text
\* that is not the base-58 of a keypair.
Keypair_from_base58_string(s) ==
  IF \E k \in Keys : SecretText(k) = s
    THEN LET k == CHOOSE k \in Keys : SecretText(k) = s
         IN  [panicked |-> FALSE, keypair |-> [pubkey |-> k, secret |-> k]]
    ELSE [panicked |-> TRUE, keypair |-> NoKeypair]

\* parse_keypair without its catch_unwind: the panic leaves the function.
parse_keypair_unguarded(s) ==
  LET r == Keypair_from_base58_string(s)
  IN  IF r.panicked
        THEN [ok |-> FALSE, keypair |-> NoKeypair, error |-> NoResult, unwound |-> TRUE]
        ELSE [ok |-> TRUE, keypair |-> r.keypair, error |-> NoResult, unwound |-> FALSE]

\* parse_keypair echoing its argument in the message.
parse_keypair_echo(s) ==
  LET r == Keypair_from_base58_string(s)
  IN  IF r.panicked
        THEN [ok |-> FALSE, keypair |-> NoKeypair,
              error |-> Err("InvalidKeypair", "Invalid secret key: " \o s),
              unwound |-> FALSE]
        ELSE [ok |-> TRUE, keypair |-> r.keypair, error |-> NoResult, unwound |-> FALSE]

\* parse_keypair: catch_unwind turns the panic into InvalidKeypair.
parse_keypair(s) ==
  LET r == Keypair_from_base58_string(s)
  IN  IF r.panicked
        THEN [ok |-> FALSE, keypair |-> NoKeypair,
              error |-> Err("InvalidKeypair", "Invalid secret key"),
              unwound |-> FALSE]
        ELSE [ok |-> TRUE, keypair |-> r.keypair, error |-> NoResult, unwound |-> FALSE]

\* ---------------------------------------------------------- metadata codec
\* Texts and byte strings are sequences: a byte is 0 .. 255; a base-64 text
\* is a sequence of alphabet indices 0 .. 63, with 64 for the padding '='
\* and 65 for a character outside the alphabet.
MaxCreators == 2

\* The 32 bytes of key k.
Pubkey_to_bytes(k) == [j \in 1 .. 32 |-> k]

RECURSIVE Flatten(_)
Flatten(seqs) == IF seqs = << >> THEN << >> ELSE Head(seqs) \o Flatten(Tail(seqs))

\* u16 written high byte first.
u16_be(n) == << n \div 256, n % 256 >>

\* Borsh: integers are little-endian, a string or vector is its u32 length
\* and then its items, a bool is one byte, None is the byte 0.
u16_le(n) == << n % 256, n \div 256 >>
u32_le(n) == << n % 256, (n \div 256) % 256, (n \div 65536) % 256, (n \div 16777216) % 256 >>
borsh_bool(b) == << IF b THEN 1 ELSE 0 >>
borsh_string(s) == u32_le(Len(s)) \o s
borsh_creator(c) == c.address \o borsh_bool(c.verified) \o << c.share >>
borsh_option(payload) == IF payload = << >> THEN << 0 >> ELSE << 1 >> \o payload

\* MetadataArgs: an absent option is the empty payload; the token program
\* version is the index of its variant (Original = 0).
MetadataArgsOf(name, symbol, uri, seller_fee_basis_points, creators, primary_sale_happened, is_mutable) ==
  [name |-> name, symbol |-> symbol, uri |-> uri,
   seller_fee_basis_points |-> seller_fee_basis_points,
   primary_sale_happened |-> primary_sale_happened, is_mutable |-> is_mutable,
   edition_nonce |-> << >>, token_standard |-> << >>, collection |-> << >>,
   uses |-> << >>, token_program_version |-> 0, creators |-> creators]

NoMetadataArgs == MetadataArgsOf(<< >>, << >>, << >>, 0, << >>, FALSE, FALSE)

\* metadata.try_to_vec(): the fields in the order MetadataArgs declares them.
MetadataArgs_try_to_vec(m) ==
  borsh_string(m.name) \o borsh_string(m.symbol) \o borsh_string(m.uri)
  \o u16_le(m.seller_fee_basis_points)
  \o borsh_bool(m.primary_sale_happened) \o borsh_bool(m.is_mutable)
  \o borsh_option(m.edition_nonce) \o borsh_option(m.token_standard)
  \o borsh_option(m.collection) \o borsh_option(m.uses)
  \o << m.token_program_version >>
  \o u32_le(Len(m.creators))
  \o Flatten([j \in 1 .. Len(m.creators) |-> borsh_creator(m.creators[j])])

\* A reader over bytes: what was read, and what is left. (The steps of a
\* read are operators of their own, each handed the read before it.)
Read(ok, val, rest) == [ok |-> ok, val |-> val, rest |-> rest]
ReadFailed == Read(FALSE, << >>, << >>)

read_bytes(prev, n) ==
  IF prev.ok /\ Len(prev.rest) >= n
    THEN Read(TRUE, SubSeq(prev.rest, 1, n), SubSeq(prev.rest, n + 1, Len(prev.rest)))
    ELSE ReadFailed

u8_of(r) == IF r.ok THEN Read(TRUE, r.val[1], r.rest) ELSE Read(FALSE, 0, << >>)
read_u8(prev) == u8_of(read_bytes(prev, 1))

u16_of(r) == IF r.ok THEN Read(TRUE, r.val[1] + 256 * r.val[2], r.rest) ELSE Read(FALSE, 0, << >>)
read_u16(prev) == u16_of(read_bytes(prev, 2))

\* A length of 2^31 or more exceeds any input here: the read that follows
\* it fails, as it does for every length beyond the bytes left.
u32_of(r) ==
  IF r.ok /\ r.val[4] < 128
    THEN Read(TRUE, r.val[1] + 256 * r.val[2] + 65536 * r.val[3] + 16777216 * r.val[4], r.rest)
    ELSE Read(FALSE, 0, << >>)
read_u32(prev) == u32_of(read_bytes(prev, 4))

bool_of(r) ==
  IF r.ok /\ r.val \in {0, 1} THEN Read(TRUE, r.val = 1, r.rest) ELSE Read(FALSE, FALSE, << >>)
read_bool(prev) == bool_of(read_u8(prev))

RECURSIVE is_utf8(_)
\* The bytes are well-formed UTF-8: one to four bytes a character, no
\* overlong form, no surrogate, nothing past U+10FFFF.
is_utf8(b) ==
  LET cont(j) == Len(b) >= j /\ b[j] \in 128 .. 191
      width == IF b[1] < 128 THEN 1
               ELSE IF b[1] \in 194 .. 223 THEN 2
               ELSE IF b[1] \in 224 .. 239 THEN 3
               ELSE IF b[1] \in 240 .. 244 THEN 4
               ELSE 0
  IN  \/ b = << >>
      \/ /\ width > 0
         /\ \A j \in 2 .. width : cont(j)
         /\ (b[1] = 224 => b[2] >= 160)
         /\ (b[1] = 237 => b[2] <= 159)
         /\ (b[1] = 240 => b[2] >= 144)
         /\ (b[1] = 244 => b[2] <= 143)
         /\ is_utf8(SubSeq(b, width + 1, Len(b)))

\* A String: its length, then that many bytes of UTF-8.
utf8_of(r) == IF r.ok /\ is_utf8(r.val) THEN r ELSE ReadFailed
string_of(n) == utf8_of(read_bytes(n, n.val))
read_string(prev) == string_of(read_u32(prev))

\* Option<T> whose payload, when present, is `size` bytes the first of which
\* is below `variants` (a u8, a bool or the index of an enum variant).
some_of(r, variants) == IF r.ok /\ r.val[1] < variants THEN r ELSE ReadFailed
option_of(tag, size, variants) ==
  IF ~tag.ok THEN ReadFailed
  ELSE IF tag.val = 0 THEN Read(TRUE, << >>, tag.rest)
  ELSE IF tag.val = 1 THEN some_of(read_bytes(tag, size), variants)
  ELSE ReadFailed
read_option(prev, size, variants) == option_of(read_u8(prev), size, variants)

\* Creator { address: Pubkey, verified: bool, share: u8 }
creator_of(address, verified, share) ==
  IF share.ok
    THEN Read(TRUE, [address |-> address.val, verified |-> verified.val, share |-> share.val],
              share.rest)
    ELSE Read(FALSE, [address |-> << >>, verified |-> FALSE, share |-> 0], << >>)
creator_verified(address, verified) == creator_of(address, verified, read_u8(verified))
creator_address(address) == creator_verified(address, read_bool(address))
read_creator(prev) == creator_address(read_bytes(prev, 32))

RECURSIVE read_creators(_, _, _)
creators_push(c, n, got) == read_creators(c, n - 1, got \o << c.val >>)

\* Vec<Creator>: n creators after those `got`.
read_creators(prev, n, got) ==
  IF ~prev.ok THEN ReadFailed
  ELSE IF n = 0 THEN Read(TRUE, got, prev.rest)
  ELSE creators_push(read_creator(prev), n, got)

creators_of(count) == read_creators(count, count.val, << >>)
read_vec_creator(prev) == creators_of(read_u32(prev))

\* The record being decoded: the fields read so far, and the bytes left.
Decoding(bytes) == [ok |-> TRUE, rest |-> bytes, metadata |-> NoMetadataArgs]
field_of(d, r, field) ==
  [ok |-> r.ok, rest |-> r.rest, metadata |-> [d.metadata EXCEPT ![field] = r.val]]
string_field(d, field) == field_of(d, read_string(d), field)
u16_field(d, field) == field_of(d, read_u16(d), field)
u8_field(d, field) == field_of(d, read_u8(d), field)
bool_field(d, field) == field_of(d, read_bool(d), field)
option_field(d, field, size, variants) == field_of(d, read_option(d, size, variants), field)
creators_field(d, field) == field_of(d, read_vec_creator(d), field)

\* The fields of MetadataArgs in the order it declares them.
MetadataArgs_fields(bytes) ==
  creators_field(
    u8_field(
      option_field(
        option_field(
          option_field(
            option_field(
              bool_field(
                bool_field(
                  u16_field(
                    string_field(
                      string_field(
                        string_field(Decoding(bytes), "name"),
                        "symbol"),
                      "uri"),
                    "seller_fee_basis_points"),
                  "primary_sale_happened"),
                "is_mutable"),
              "edition_nonce", 1, 256),
            "token_standard", 1, 4),
          "collection", 33, 2),
        "uses", 17, 3),
      "token_program_version"),
    "creators")

\* MetadataArgs::try_from_slice: every field in order, a known token program
\* version, and no byte left over.
whole_of(d) ==
  IF d.ok /\ d.metadata.token_program_version < 2 /\ d.rest = << >>
    THEN [ok |-> TRUE, metadata |-> d.metadata]
    ELSE [ok |-> FALSE, metadata |-> NoMetadataArgs]
MetadataArgs_try_from_slice(bytes) == whole_of(MetadataArgs_fields(bytes))

\* BASE64.encode: three bytes to four characters, the last group padded
\* with '='.
BASE64_encode(bytes) ==
  LET n == Len(bytes)
      byte(j) == IF j <= n THEN bytes[j] ELSE 0
      char(p) ==
        LET g == 3 * ((p - 1) \div 4)
            r == (p - 1) % 4
        IN  IF r = 0 THEN byte(g + 1) \div 4
            ELSE IF r = 1 THEN (byte(g + 1) % 4) * 16 + byte(g + 2) \div 16
            ELSE IF r = 2
              THEN IF g + 2 > n THEN 64 ELSE (byte(g + 2) % 16) * 4 + byte(g + 3) \div 64
            ELSE IF g + 3 > n THEN 64 ELSE byte(g + 3) % 64
  IN  [p \in 1 .. 4 * ((n + 2) \div 3) |-> char(p)]

\* BASE64.decode (the STANDARD engine): groups of four characters of the
\* alphabet, padding only at the end of the last group and canonical, no
\* stray bits before it.
BASE64_decode(text) ==
  LET n == Len(text)
      pads == IF n = 0 THEN 0
              ELSE IF text[n] # 64 THEN 0
              ELSE IF n >= 2 /\ text[n - 1] = 64 THEN 2 ELSE 1
      wellformed ==
        /\ n % 4 = 0
        /\ \A p \in 1 .. n - pads : text[p] <= 63
        /\ pads = 1 => text[n - 1] % 4 = 0
        /\ pads = 2 => text[n - 2] % 16 = 0
      sextet(p) == IF text[p] = 64 THEN 0 ELSE text[p]
      byte(q) ==
        LET g == 4 * ((q - 1) \div 3)
            r == (q - 1) % 3
        IN  IF r = 0 THEN sextet(g + 1) * 4 + sextet(g + 2) \div 16
            ELSE IF r = 1 THEN (sextet(g + 2) % 16) * 16 + sextet(g + 3) \div 4
            ELSE (sextet(g + 3) % 4) * 64 + sextet(g + 4)
  IN  IF wellformed
        THEN [ok |-> TRUE, bytes |-> [q \in 1 .. 3 * (n \div 4) - pads |-> byte(q)]]
        ELSE [ok |-> FALSE, bytes |-> << >>]

\* ------------------------------------------------------ metadata documents
\* A JSON value: its kind and the slot of that kind. A text is its UTF-8
\* bytes, except a creator address, kept as the text the key codec reads.
JValue(kind, str, num, bool) == [kind |-> kind, str |-> str, num |-> num, bool |-> bool]
JString(s) == JValue("string", s, 0, FALSE)
JNumber(n) == JValue("number", << >>, n, FALSE)
JBool(b) == JValue("bool", << >>, 0, b)
JNull == JValue("null", << >>, 0, FALSE)
JAbsent == JValue("absent", << >>, 0, FALSE)

JCreator(address, verified, share) ==
  [address |-> address, verified |-> verified, share |-> share]

\* The creators member: absent, null, or an array of objects.
JCreators(kind, items) == [kind |-> kind, items |-> items]

\* A document: text that is no JSON at all, or an object with these members
\* written in the order MetadataInput declares them.
JDocument(name, symbol, uri, seller_fee_basis_points, creators, primary_sale_happened, is_mutable) ==
  [json |-> TRUE, name |-> name, symbol |-> symbol, uri |-> uri,
   seller_fee_basis_points |-> seller_fee_basis_points, creators |-> creators,
   primary_sale_happened |-> primary_sale_happened, is_mutable |-> is_mutable]

NotJson ==
  [JDocument(JAbsent, JAbsent, JAbsent, JAbsent, JCreators("absent", << >>), JAbsent, JAbsent)
     EXCEPT !.json = FALSE]

\* serde: the detail of a member that has the wrong JSON type or a number
\* outside the integer type of its field, "" when it fits or is absent.
\* (serde appends the value found and its line and column.)
mismatch(v, expected, max) ==
  IF v.kind = "absent" THEN ""
  ELSE IF v.kind # (IF expected = "a string" THEN "string"
                    ELSE IF expected = "a boolean" THEN "bool" ELSE "number")
    THEN "invalid type, expected " \o expected
  ELSE IF v.kind = "number" /\ (v.num < 0 \/ v.num > max)
    THEN "invalid value, expected " \o expected
  ELSE ""

\* serde: a member without a default that the object does not have.
missing(v, field) == IF v.kind = "absent" THEN "missing field " \o field ELSE ""

first_detail(details) ==
  IF \A j \in 1 .. Len(details) : details[j] = "" THEN ""
  ELSE details[CHOOSE j \in 1 .. Len(details) :
                 details[j] # "" /\ \A h \in 1 .. j - 1 : details[h] = ""]

\* struct CreatorInput { address: String, verified: bool, share: u8 }
CreatorInput_details(c) ==
  << mismatch(c.address, "a string", 0), mismatch(c.verified, "a boolean", 0),
     mismatch(c.share, "u8", 255),
     missing(c.address, "address"), missing(c.verified, "verified"),
     missing(c.share, "share") >>

\* struct MetadataInput: the members are read as they come, a missing one is
\* reported at the end of the object; creators is an Option.
MetadataInput_details(d) ==
  << mismatch(d.name, "a string", 0), mismatch(d.symbol, "a string", 0),
     mismatch(d.uri, "a string", 0), mismatch(d.seller_fee_basis_points, "u16", 65535) >>
  \o Flatten([j \in 1 .. Len(d.creators.items) |-> CreatorInput_details(d.creators.items[j])])
  \o << mismatch(d.primary_sale_happened, "a boolean", 0),
        mismatch(d.is_mutable, "a boolean", 0),
        missing(d.name, "name"), missing(d.symbol, "symbol"), missing(d.uri, "uri"),
        missing(d.seller_fee_basis_points, "seller_fee_basis_points"),
        missing(d.primary_sale_happened, "primary_sale_happened"),
        missing(d.is_mutable, "is_mutable") >>

\* serde_json::from_str::<MetadataInput>.
serde_json_from_str(d) ==
  LET detail == IF d.json THEN first_detail(MetadataInput_details(d)) ELSE "expected value"
  IN  [ok |-> detail = "", detail |-> detail]

NoCreator == [address |-> Pubkey_to_bytes(0), verified |-> FALSE, share |-> 0]

\* The creator conversion reporting a malformed address as invalid metadata.
creator_from_input_as_metadata(c) ==
  LET address == Pubkey_from_str(c.address.str)
  IN  IF address.ok
        THEN [ok |-> TRUE,
              creator |-> [address |-> Pubkey_to_bytes(address.pubkey),
                           verified |-> c.verified.bool, share |-> c.share.num],
              error |-> NoResult]
        ELSE [ok |-> FALSE, creator |-> NoCreator,
              error |-> Err("InvalidMetadata", "JSON parse error: " \o address.err)]

\* The closure mapped over the creators: the address through
\* Pubkey::from_str, its error as InvalidPubkey.
creator_from_input(c) ==
  LET address == Pubkey_from_str(c.address.str)
  IN  IF address.ok
        THEN [ok |-> TRUE,
              creator |-> [address |-> Pubkey_to_bytes(address.pubkey),
                           verified |-> c.verified.bool, share |-> c.share.num],
              error |-> NoResult]
        ELSE [ok |-> FALSE, creator |-> NoCreator,
              error |-> Err("InvalidPubkey", address.err)]

\* serialize_metadata_to_borsh: JSON to MetadataInput, the creators
\* converted in order up to the first that fails, the reserved fields at
\* their defaults, Borsh, base-64.
serialize_metadata_to_borsh(metadata_json) ==
  LET metadata_input == serde_json_from_str(metadata_json)
      inputs == metadata_json.creators.items
      converted == [j \in 1 .. Len(inputs) |-> creator_from_input(inputs[j])]
      failed == {j \in 1 .. Len(inputs) : ~converted[j].ok}
      metadata ==
        MetadataArgsOf(metadata_json.name.str, metadata_json.symbol.str, metadata_json.uri.str,
                       metadata_json.seller_fee_basis_points.num,
                       [j \in 1 .. Len(inputs) |-> converted[j].creator],
                       metadata_json.primary_sale_happened.bool, metadata_json.is_mutable.bool)
  IN  IF ~metadata_input.ok
        THEN [ok |-> FALSE, text |-> << >>,
              error |-> Err("InvalidMetadata", "JSON parse error: " \o metadata_input.detail)]
      ELSE IF failed # {}
        THEN [ok |-> FALSE, text |-> << >>,
              error |-> converted[CHOOSE j \in failed : \A h \in failed : j <= h].error]
      ELSE [ok |-> TRUE, text |-> BASE64_encode(MetadataArgs_try_to_vec(metadata)),
            error |-> NoResult]

\* The document of the tests, with key 1 as its creator.
TestDocument ==
  JDocument(JString(<< 84, 101, 115, 116, 32, 78, 70, 84 >>), JString(<< 84, 78, 70, 84 >>),
            JString(<< 104, 116, 116, 112, 115, 58, 47, 47, 101, 120, 97, 109, 112, 108, 101, 46, 99, 111, 109, 47, 110, 102, 116, 46, 106, 115, 111, 110 >>),
            JNumber(500),
            JCreators("array", << JCreator(JString(PubkeyText(1)), JBool(FALSE), JNumber(100)) >>),
            JBool(FALSE), JBool(TRUE))

\* metadata_borsh arguments of mint_v1: the serialized test document,
\* base-64 of bytes that are no MetadataArgs, and the text of the tests that
\* is not base-64 ("not_a_valid_borsh_base64_string").
SerializedTestDocument == serialize_metadata_to_borsh(TestDocument).text
NotMetadataArgsText == BASE64_encode(<< 1, 2, 3 >>)
NotBase64Text ==
  << 39, 40, 45, 65, 26, 65, 47, 26, 37, 34, 29, 65, 27, 40, 43, 44, 33, 65, 27, 26, 44, 30, 58, 56, 65, 44, 45, 43, 34, 39, 32 >>
MetadataTexts == {SerializedTestDocument, NotMetadataArgsText, NotBase64Text}

\* The documents handed to serialize_metadata_to_borsh.
DocumentNames == {JString(<< 84, 101, 115, 116, 32, 78, 70, 84 >>), JString(<< 195, 169 >>), JAbsent}
DocumentFees ==
  {JNumber(0), JNumber(500), JNumber(10000), JNumber(10001), JNumber(65535),
   JNumber(65536), JNumber(-1), JString(<< 53, 48, 48 >>)}
DocumentCreators ==
  {JCreator(JString(PubkeyText(1)), JBool(FALSE), JNumber(100)),
   JCreator(JString(PubkeyText(2)), JBool(TRUE), JNumber(0)),
   JCreator(JString(PubkeyText(1)), JBool(FALSE), JNumber(101)),
   JCreator(JString("invalid_pubkey"), JBool(FALSE), JNumber(100)),
   JCreator(JString(PubkeyText(2)), JBool(FALSE), JNumber(256))}
DocumentCreatorLists ==
  {JCreators("absent", << >>), JCreators("null", << >>)}
  \cup {JCreators("array", items) :
          items \in UNION {[1 .. n -> DocumentCreators] : n \in 0 .. MaxCreators}}
Documents ==
  {NotJson}
  \cup {JDocument(name, TestDocument.symbol, TestDocument.uri, fee, creators, primary, mutable) :
          name \in DocumentNames, fee \in DocumentFees, creators \in DocumentCreatorLists,
          primary \in {JBool(FALSE), JBool(TRUE)}, mutable \in {JBool(TRUE), JBool(FALSE), JNull}}

\* ---------------------------------------------------- instruction builders
Meta(pubkey, is_signer, is_writable) ==
  [pubkey |-> pubkey, is_signer |-> is_signer, is_writable |-> is_writable]

NoData ==
  [max_depth |-> 0, max_buffer_size |-> 0, metadata |-> NoMetadataArgs, root |-> 0,
   data_hash |-> 0, creator_hash |-> 0, nonce |-> 0, index |-> 0]

NoInstruction == [name |-> "none", accounts |-> << >>, data |-> NoData]

\* The accounts named by the caller, in the order the protocol lists them.
\* (The three fixed program accounts that follow them in every instruction
\* are never signers and are left out.)
CreateTreeConfigBuilder(tree_config, merkle_tree, payer, tree_creator, max_depth, max_buffer_size) ==
  [name |-> "CreateTreeConfig",
   accounts |-> << Meta(tree_config, FALSE, TRUE),
                   Meta(merkle_tree, FALSE, TRUE),
                   Meta(payer, TRUE, TRUE),
                   Meta(tree_creator, TRUE, FALSE) >>,
   data |-> [NoData EXCEPT !.max_depth = max_depth, !.max_buffer_size = max_buffer_size]]

MintV1Builder(tree_config, leaf_owner, leaf_delegate, merkle_tree, payer, tree_creator_or_delegate, metadata) ==
  [name |-> "MintV1",
   accounts |-> << Meta(tree_config, FALSE, TRUE),
                   Meta(leaf_owner, FALSE, FALSE),
                   Meta(leaf_delegate, FALSE, FALSE),
                   Meta(merkle_tree, FALSE, TRUE),
                   Meta(payer, TRUE, FALSE),
                   Meta(tree_creator_or_delegate, TRUE, FALSE) >>,
   data |-> [NoData EXCEPT !.metadata = metadata]]

TransferBuilder(tree_config, leaf_owner, owner_signs, leaf_delegate, delegate_signs, new_leaf_owner, merkle_tree, root, data_hash, creator_hash, nonce, index) ==
  [name |-> "Transfer",
   accounts |-> << Meta(tree_config, FALSE, FALSE),
                   Meta(leaf_owner, owner_signs, FALSE),
                   Meta(leaf_delegate, delegate_signs, FALSE),
                   Meta(new_leaf_owner, FALSE, FALSE),
                   Meta(merkle_tree, FALSE, TRUE) >>,
   data |-> [NoData EXCEPT !.root = root, !.data_hash = data_hash,
                            !.creator_hash = creator_hash, !.nonce = nonce,
                            !.index = index]]

\* ----------------------------------------------------- message, transaction
RECURSIVE UniquePubkeys(_, _)
\* The pubkeys of metas, each once, in order of first appearance.
UniquePubkeys(metas, seen) ==
  IF metas = << >> THEN << >>
  ELSE IF Head(metas).pubkey \in seen
    THEN UniquePubkeys(Tail(metas), seen)
    ELSE << Head(metas).pubkey >> \o UniquePubkeys(Tail(metas), seen \cup {Head(metas).pubkey})

Range(seq) == {seq[j] : j \in 1 .. Len(seq)}

\* Message::new(&[instruction], Some(&payer)): the fee payer first, then the
\* other signers, then the rest; an account is a signer (writable) when any
\* of its mentions is.
Message_new(instruction, payer) ==
  LET metas == << Meta(payer, TRUE, TRUE) >> \o instruction.accounts
      signs(k) == \E m \in Range(metas) : m.pubkey = k /\ m.is_signer
      writes(k) == \E m \in Range(metas) : m.pubkey = k /\ m.is_writable
      uniq == UniquePubkeys(metas, {})
      sw(k) == signs(k) /\ writes(k)
      sr(k) == signs(k) /\ ~writes(k)
      nw(k) == ~signs(k) /\ writes(k)
      nr(k) == ~signs(k) /\ ~writes(k)
  IN  [account_keys |-> SelectSeq(uniq, sw) \o SelectSeq(uniq, sr)
                        \o SelectSeq(uniq, nw) \o SelectSeq(uniq, nr),
       num_required_signatures |-> Len(SelectSeq(uniq, signs)),
       recent_blockhash |-> 0,
       instruction |-> instruction]

NoMessage ==
  [account_keys |-> << >>, num_required_signatures |-> 0, recent_blockhash |-> 0,
   instruction |-> NoInstruction]

\* Signature::default()
DefaultSignature == [by |-> 0, bh |-> 0]

NoTransaction == [message |-> NoMessage, signatures |-> << >>]

Transaction_new_unsigned(message) ==
  [message |-> message,
   signatures |-> [j \in 1 .. message.num_required_signatures |-> DefaultSignature]]

SignedKeys(tx) == SubSeq(tx.message.account_keys, 1, tx.message.num_required_signatures)

is_signed(tx) == \A j \in 1 .. Len(tx.signatures) : tx.signatures[j] # DefaultSignature

Position(keys, k) ==
  IF \E j \in 1 .. Len(keys) : keys[j] = k
    THEN CHOOSE j \in 1 .. Len(keys) : keys[j] = k /\ \A l \in 1 .. (j - 1) : keys[l] # k
    ELSE 0

\* Transaction::try_partial_sign: as try_sign, without the check that every
\* signer slot is signed.
try_partial_sign(tx, keypairs, recent_blockhash) ==
  LET keys == SignedKeys(tx)
      pos == [j \in 1 .. Len(keypairs) |-> Position(keys, keypairs[j].pubkey)]
      msg == [tx.message EXCEPT !.recent_blockhash = recent_blockhash]
      sigs == [p \in 1 .. Len(tx.signatures) |->
                 IF \E j \in 1 .. Len(keypairs) : pos[j] = p
                   THEN [by |-> keys[p], bh |-> recent_blockhash]
                   ELSE DefaultSignature]
  IN  IF \E j \in 1 .. Len(keypairs) : pos[j] = 0
        THEN [ok |-> FALSE, err |-> "keypair-pubkey mismatch", tx |-> tx]
        ELSE [ok |-> TRUE, err |-> "", tx |-> [message |-> msg, signatures |-> sigs]]

\* Transaction::try_sign(keypairs, recent_blockhash): every keypair must own
\* a signer slot (KeypairPubkeyMismatch), and every slot must end up signed
\* (NotEnoughSigners).
try_sign(tx, keypairs, recent_blockhash) ==
  LET keys == SignedKeys(tx)
      pos == [j \in 1 .. Len(keypairs) |-> Position(keys, keypairs[j].pubkey)]
      msg == [tx.message EXCEPT !.recent_blockhash = recent_blockhash]
      signer(p) == CHOOSE j \in 1 .. Len(keypairs) :
                     pos[j] = p /\ \A l \in (j + 1) .. Len(keypairs) : pos[l] # p
      sigs == [p \in 1 .. Len(tx.signatures) |->
                 IF \E j \in 1 .. Len(keypairs) : pos[j] = p
                   THEN [by |-> keypairs[signer(p)].secret, bh |-> recent_blockhash]
                   ELSE DefaultSignature]
      signed == [message |-> msg, signatures |-> sigs]
  IN  IF \E j \in 1 .. Len(keypairs) : pos[j] = 0
        THEN [ok |-> FALSE, err |-> "keypair-pubkey mismatch", tx |-> tx]
        ELSE IF ~is_signed(signed)
          THEN [ok |-> FALSE, err |-> "not enough signers", tx |-> signed]
          ELSE [ok |-> TRUE, err |-> "", tx |-> signed]

Signature_to_string(sig) == "sig" \o ToString(sig.by) \o "@" \o ToString(sig.bh)

\* -------------------------------------------------------------- arguments
\* The arguments of one invocation: the public-key texts and the secret
\* texts in parameter order. (Every invocation names the same endpoint.)
OpArgs(op, pubkeys, secrets, metadata, leaf_index, max_depth, max_buffer_size) ==
  [op |-> op, pubkeys |-> pubkeys, secrets |-> secrets, metadata |-> metadata,
   leaf_index |-> leaf_index, max_depth |-> max_depth, max_buffer_size |-> max_buffer_size]

NoArgs == OpArgs("none", << >>, << >>, << >>, 0, 0, 0)

ArgsOver(P, S, M, L) ==
  { OpArgs("create_tree_config", <<p1, p2>>, <<s1, s2>>, << >>, 0, d, b) :
      p1 \in P, p2 \in P, s1 \in S, s2 \in S, d \in MaxDepths, b \in MaxBufferSizes }
  \cup
  { OpArgs("mint_v1", <<p1, p2, p3>>, <<s1, s2>>, m, 0, 0, 0) :
      p1 \in P, p2 \in P, p3 \in P, s1 \in S, s2 \in S, m \in M }
  \cup
  { OpArgs("transfer", <<p1, p2, p3>>, <<s1, s2>>, << >>, l, 0, 0) :
      p1 \in P, p2 \in P, p3 \in P, s1 \in S, s2 \in S, l \in L }

Args == ArgsOver(PubkeyTexts, SecretTexts, MetadataTexts, LeafIndexes)

\* The arguments two concurrent invocations draw from: every secret text,
\* with the public-key texts, metadata and leaf index held to one value.
PairArgs == ArgsOver({PubkeyText(1)}, SecretTexts, {SerializedTestDocument}, {0})

\* ------------------------------------------- the operations' local prefixes
\* What an operation has done when it reaches its first network call or
\* returns early: the steps it took, the early result (if any), and the
\* locals the rest of the operation uses.
Return(steps, error) ==
  [steps |-> steps, ret |-> error, signers |-> << >>, fee_payer |-> 0,
   instruction |-> NoInstruction, unwound |-> FALSE]

Unwind(steps) ==
  [steps |-> steps, ret |-> NoResult, signers |-> << >>, fee_payer |-> 0,
   instruction |-> NoInstruction, unwound |-> TRUE]

Proceed(steps, instruction, fee_payer, signers) ==
  [steps |-> steps \o <<"instruction">>, ret |-> NoResult, signers |-> signers,
   fee_payer |-> fee_payer, instruction |-> instruction, unwound |-> FALSE]

\* The two parse_keypair calls with the second secret parsed first.
KeypairFailure_second_first(steps, kp1, kp2) ==
  IF ~kp2.ok
    THEN IF kp2.unwound THEN Unwind(steps \o <<"parse_keypair">>)
         ELSE Return(steps \o <<"parse_keypair">>, kp2.error)
    ELSE IF kp1.unwound THEN Unwind(steps \o <<"parse_keypair", "parse_keypair">>)
         ELSE Return(steps \o <<"parse_keypair", "parse_keypair">>, kp1.error)

\* The two parse_keypair calls every operation makes after its pubkeys.
KeypairFailure(steps, kp1, kp2) ==
  IF ~kp1.ok
    THEN IF kp1.unwound THEN Unwind(steps \o <<"parse_keypair">>)
         ELSE Return(steps \o <<"parse_keypair">>, kp1.error)
    ELSE IF kp2.unwound THEN Unwind(steps \o <<"parse_keypair", "parse_keypair">>)
         ELSE Return(steps \o <<"parse_keypair", "parse_keypair">>, kp2.error)

\* mint_v1 signing with the leaf owner too.
mint_v1_signers_with_owner(payer_keypair, leaf_owner_keypair) ==
  <<payer_keypair, leaf_owner_keypair>>

create_tree_config_signers(payer_keypair, tree_creator_keypair) ==
  <<payer_keypair, tree_creator_keypair>>

mint_v1_signers(payer_keypair, leaf_owner_keypair) == <<payer_keypair>>

transfer_signers(payer_keypair, leaf_owner_keypair) ==
  <<payer_keypair, leaf_owner_keypair>>

create_tree_config(a) ==
  LET payer == parse_pubkey(a.pubkeys[1])
      tree_creator == parse_pubkey(a.pubkeys[2])
      payer_keypair == parse_keypair(a.secrets[1])
      tree_creator_keypair == parse_keypair(a.secrets[2])
      pp == <<"parse_pubkey">>
  IN  IF ~payer.ok THEN Return(pp, payer.error)
      ELSE IF ~tree_creator.ok THEN Return(pp \o pp, tree_creator.error)
      ELSE IF ~payer_keypair.ok \/ ~tree_creator_keypair.ok
        THEN KeypairFailure(pp \o pp, payer_keypair, tree_creator_keypair)
      ELSE Proceed(pp \o pp \o <<"parse_keypair", "parse_keypair">>,
                   CreateTreeConfigBuilder(payer.pubkey, tree_creator.pubkey,
                                           payer.pubkey, tree_creator.pubkey,
                                           a.max_depth, a.max_buffer_size),
                   payer.pubkey,
                   create_tree_config_signers(payer_keypair.keypair,
                                              tree_creator_keypair.keypair))

\* mint_v1's decoding of its metadata_borsh argument: base-64, then Borsh;
\* with the steps it took.
borsh_decoded(metadata) ==
  IF ~metadata.ok
    THEN [ok |-> FALSE, metadata |-> NoMetadataArgs,
          steps |-> <<"BASE64.decode", "MetadataArgs::try_from_slice">>,
          error |-> Err("InvalidMetadata",
                        "Borsh deserialize error: Unexpected length of input")]
    ELSE [ok |-> TRUE, metadata |-> metadata.metadata,
          steps |-> <<"BASE64.decode", "MetadataArgs::try_from_slice">>,
          error |-> NoResult]
base64_decoded(metadata_bytes) ==
  IF ~metadata_bytes.ok
    THEN [ok |-> FALSE, metadata |-> NoMetadataArgs, steps |-> <<"BASE64.decode">>,
          error |-> Err("InvalidMetadata", "Base64 decode error: Invalid byte")]
    ELSE borsh_decoded(MetadataArgs_try_from_slice(metadata_bytes.bytes))
decode_metadata(metadata_borsh) == base64_decoded(BASE64_decode(metadata_borsh))

mint_v1_decoded(a, tree, owner, delegate, payer_keypair, leaf_owner_keypair, decoded) ==
  LET pp == <<"parse_pubkey">>
      parsed == pp \o pp \o pp \o <<"parse_keypair", "parse_keypair">>
  IN  IF ~tree.ok THEN Return(pp, tree.error)
      ELSE IF ~owner.ok THEN Return(pp \o pp, owner.error)
      ELSE IF ~delegate.ok THEN Return(pp \o pp \o pp, delegate.error)
      ELSE IF ~payer_keypair.ok \/ ~leaf_owner_keypair.ok
        THEN KeypairFailure(pp \o pp \o pp, payer_keypair, leaf_owner_keypair)
      ELSE IF ~decoded.ok THEN Return(parsed \o decoded.steps, decoded.error)
      ELSE Proceed(parsed \o decoded.steps,
                   MintV1Builder(tree.pubkey, owner.pubkey, delegate.pubkey, tree.pubkey,
                                 payer_keypair.keypair.pubkey,
                                 payer_keypair.keypair.pubkey, decoded.metadata),
                   payer_keypair.keypair.pubkey,
                   mint_v1_signers(payer_keypair.keypair, leaf_owner_keypair.keypair))

mint_v1(a) ==
  mint_v1_decoded(a, parse_pubkey(a.pubkeys[1]), parse_pubkey(a.pubkeys[2]),
                  parse_pubkey(a.pubkeys[3]), parse_keypair(a.secrets[1]),
                  parse_keypair(a.secrets[2]), decode_metadata(a.metadata))

transfer(a) ==
  LET tree == parse_pubkey(a.pubkeys[1])
      owner == parse_pubkey(a.pubkeys[2])
      new_owner == parse_pubkey(a.pubkeys[3])
      payer_keypair == parse_keypair(a.secrets[1])
      leaf_owner_keypair == parse_keypair(a.secrets[2])
      pp == <<"parse_pubkey">>
  IN  IF ~tree.ok THEN Return(pp, tree.error)
      ELSE IF ~owner.ok THEN Return(pp \o pp, owner.error)
      ELSE IF ~new_owner.ok THEN Return(pp \o pp \o pp, new_owner.error)
      ELSE IF ~payer_keypair.ok \/ ~leaf_owner_keypair.ok
        THEN KeypairFailure(pp \o pp \o pp, payer_keypair, leaf_owner_keypair)
      ELSE Proceed(pp \o pp \o pp \o <<"parse_keypair", "parse_keypair">>,
                   TransferBuilder(tree.pubkey, owner.pubkey, TRUE, owner.pubkey, FALSE,
                                   new_owner.pubkey, tree.pubkey, 0, 0, 0, 0, a.leaf_index),
                   payer_keypair.keypair.pubkey,
                   transfer_signers(payer_keypair.keypair, leaf_owner_keypair.keypair))

Run(a) ==
  CASE a.op = "create_tree_config" -> create_tree_config(a)
    [] a.op = "mint_v1" -> mint_v1(a)
    [] a.op = "transfer" -> transfer(a)

\* ---------------------------------------------------- the network helpers
\* What the endpoint answered to one call.
Answer(ok, value, msg) == [ok |-> ok, value |-> value, msg |-> msg]

\* get_recent_blockhash forgetting the endpoint's answer.
get_recent_blockhash_default(answer) ==
  IF answer.ok
    THEN [ok |-> TRUE, hash |-> 0, error |-> NoResult]
    ELSE [ok |-> FALSE, hash |-> 0, error |-> Err("RpcError", answer.msg)]

get_recent_blockhash(answer) ==
  IF answer.ok
    THEN [ok |-> TRUE, hash |-> answer.value, error |-> NoResult]
    ELSE [ok |-> FALSE, hash |-> 0, error |-> Err("RpcError", answer.msg)]

\* submit_tx reporting success whatever the endpoint answered.
submit_tx_swallow(answer) ==
  IF answer.ok THEN [pc |-> "done", ret |-> Ok(Signature_to_string(answer.value))]
  ELSE [pc |-> "done", ret |-> Ok(Signature_to_string(DefaultSignature))]

\* submit_tx sending again when the endpoint reports rate limiting.
submit_tx_retry(answer) ==
  IF answer.ok THEN [pc |-> "done", ret |-> Ok(Signature_to_string(answer.value))]
  ELSE IF answer.msg = "rate limit" THEN [pc |-> "submit_tx", ret |-> NoResult]
  ELSE [pc |-> "done", ret |-> Err("RpcError", answer.msg)]

\* submit_tx: one send_and_confirm_transaction, its outcome returned.
submit_tx(answer) ==
  IF answer.ok THEN [pc |-> "done", ret |-> Ok(Signature_to_string(answer.value))]
  ELSE [pc |-> "done", ret |-> Err("RpcError", answer.msg)]

\* The caller's handling of try_sign's outcome with the error dropped.
after_try_sign_unchecked(signing) == [pc |-> "submit_tx", ret |-> NoResult]

\* .map_err(|e| NifError::SerializationError(e.to_string()))?
after_try_sign(signing) ==
  IF signing.ok
    THEN [pc |-> "submit_tx", ret |-> NoResult]
    ELSE [pc |-> "done", ret |-> Err("SerializationError", signing.err)]

\* ------------------------------------------------------------------- state
NoDecoded == [ok |-> FALSE, error |-> NoResult, steps |-> << >>, metadata |-> NoMetadataArgs]

NoCodec ==
  [pc |-> "idle", metadata_json |-> NotJson,
   serialized |-> [ok |-> FALSE, text |-> << >>, error |-> NoResult],
   decoded |-> NoDecoded]

VARIABLES
  pc,               \* where each invocation stands
  args,             \* its arguments
  steps,            \* the fallible steps it has run, in order
  signers,          \* the keypairs it signs with
  fee_payer,        \* the fee payer of its message
  instruction,      \* the instruction it built
  recent_blockhash, \* the blockhash it fetched
  tx,               \* its transaction
  result,           \* what it returned
  returns,          \* how many results it has returned
  calls,            \* the network calls it made, with the endpoint's answers
  alive,            \* the calling process has not been aborted
  tip,              \* the endpoint's latest blockhash
  confirmed,        \* the transactions the endpoint confirmed
  leaf,             \* the current proof of the leaf to transfer
  codec             \* a metadata document on its way through the codec

vars ==
  <<pc, args, steps, signers, fee_payer, instruction, recent_blockhash, tx,
    result, returns, calls, alive, tip, confirmed, leaf, codec>>

locals == <<args, signers, fee_payer, instruction>>
env == <<tip, confirmed, leaf>>

Init ==
  /\ pc = [i \in Inv |-> "idle"]
  /\ args = [i \in Inv |-> NoArgs]
  /\ steps = [i \in Inv |-> << >>]
  /\ signers = [i \in Inv |-> << >>]
  /\ fee_payer = [i \in Inv |-> 0]
  /\ instruction = [i \in Inv |-> NoInstruction]
  /\ recent_blockhash = [i \in Inv |-> 0]
  /\ tx = [i \in Inv |-> NoTransaction]
  /\ result = [i \in Inv |-> NoResult]
  /\ returns = [i \in Inv |-> 0]
  /\ calls = [i \in Inv |-> << >>]
  /\ alive = TRUE
  /\ tip = 1
  /\ confirmed = {}
  /\ leaf \in LeafProofs
  /\ codec = NoCodec

\* ----------------------------------------------------------------- actions
\* An invocation starts and runs to its first network call or early return.
Start(i, a) ==
  /\ LET f == Run(a)
     IN  /\ args' = [args EXCEPT ![i] = a]
         /\ steps' = [steps EXCEPT ![i] = f.steps]
         /\ signers' = [signers EXCEPT ![i] = f.signers]
         /\ fee_payer' = [fee_payer EXCEPT ![i] = f.fee_payer]
         /\ instruction' = [instruction EXCEPT ![i] = f.instruction]
         /\ result' = [result EXCEPT ![i] = f.ret]
         /\ returns' = [returns EXCEPT ![i] = IF f.ret = NoResult THEN 0 ELSE 1]
         /\ alive' = ~f.unwound
         /\ pc' = [pc EXCEPT ![i] =
                     IF f.unwound THEN "aborted"
                     ELSE IF f.ret = NoResult THEN "get_recent_blockhash" ELSE "done"]
  /\ UNCHANGED <<recent_blockhash, tx, calls, env, codec>>

Call(i) ==
  /\ alive
  /\ pc[i] = "idle"
  /\ \E a \in Args : Start(i, a)

CallPair(i) ==
  /\ alive
  /\ pc[i] = "idle"
  /\ \E a \in PairArgs : Start(i, a)

\* The fetched blockhash kept in one place for every invocation, the latest
\* fetch overwriting the one before.
GetRecentBlockhash_shared(i) ==
  /\ alive
  /\ pc[i] = "get_recent_blockhash"
  /\ \E answer \in {Answer(TRUE, tip, "")} \cup {Answer(FALSE, 0, m) : m \in EndpointErrors} :
       LET r == get_recent_blockhash(answer)
       IN  /\ calls' = [calls EXCEPT ![i] =
                          Append(@, [method |-> "get_latest_blockhash", tx |-> NoTransaction,
                                     answer |-> answer])]
           /\ steps' = [steps EXCEPT ![i] = Append(@, "get_recent_blockhash")]
           /\ recent_blockhash' = [j \in Inv |-> IF r.ok THEN r.hash ELSE recent_blockhash[j]]
           /\ result' = [result EXCEPT ![i] = r.error]
           /\ returns' = [returns EXCEPT ![i] = IF r.ok THEN @ ELSE @ + 1]
           /\ pc' = [pc EXCEPT ![i] = IF r.ok THEN "try_sign" ELSE "done"]
  /\ UNCHANGED <<locals, tx, alive, env, codec>>

\* let recent_blockhash = get_recent_blockhash(rpc_url)?;
GetRecentBlockhash(i) ==
  /\ alive
  /\ pc[i] = "get_recent_blockhash"
  /\ \E answer \in {Answer(TRUE, tip, "")} \cup {Answer(FALSE, 0, m) : m \in EndpointErrors} :
       LET r == get_recent_blockhash(answer)
       IN  /\ calls' = [calls EXCEPT ![i] =
                          Append(@, [method |-> "get_latest_blockhash", tx |-> NoTransaction,
                                     answer |-> answer])]
           /\ steps' = [steps EXCEPT ![i] = Append(@, "get_recent_blockhash")]
           /\ recent_blockhash' = [recent_blockhash EXCEPT ![i] = r.hash]
           /\ result' = [result EXCEPT ![i] = r.error]
           /\ returns' = [returns EXCEPT ![i] = IF r.ok THEN @ ELSE @ + 1]
           /\ pc' = [pc EXCEPT ![i] = IF r.ok THEN "try_sign" ELSE "done"]
  /\ UNCHANGED <<locals, tx, alive, env, codec>>

\* Message::new, Transaction::new_unsigned, tx.try_sign(..)
TrySign(i) ==
  /\ alive
  /\ pc[i] = "try_sign"
  /\ LET message == Message_new(instruction[i], fee_payer[i])
         signing == try_sign(Transaction_new_unsigned(message), signers[i],
                             recent_blockhash[i])
         next == after_try_sign(signing)
     IN  /\ tx' = [tx EXCEPT ![i] = signing.tx]
         /\ steps' = [steps EXCEPT ![i] = Append(@, "try_sign")]
         /\ result' = [result EXCEPT ![i] = next.ret]
         /\ returns' = [returns EXCEPT ![i] = IF next.ret = NoResult THEN @ ELSE @ + 1]
         /\ pc' = [pc EXCEPT ![i] = next.pc]
  /\ UNCHANGED <<locals, recent_blockhash, calls, alive, env, codec>>

\* submit_tx(rpc_url, tx): the endpoint confirms the transaction or fails.
SubmitTx(i) ==
  /\ alive
  /\ pc[i] = "submit_tx"
  /\ \E answer \in {Answer(TRUE, tx[i].signatures[1], "")}
                   \cup {Answer(FALSE, DefaultSignature, m) : m \in EndpointErrors} :
       /\ calls' = [calls EXCEPT ![i] =
                      Append(@, [method |-> "send_and_confirm_transaction", tx |-> tx[i],
                                 answer |-> answer])]
       /\ steps' = [steps EXCEPT ![i] = Append(@, "submit_tx")]
       /\ confirmed' = IF answer.ok THEN confirmed \cup {tx[i]} ELSE confirmed
       /\ result' = [result EXCEPT ![i] = submit_tx(answer).ret]
       /\ returns' = [returns EXCEPT ![i] = IF submit_tx(answer).ret = NoResult THEN @ ELSE @ + 1]
       /\ pc' = [pc EXCEPT ![i] = submit_tx(answer).pc]
  /\ UNCHANGED <<locals, recent_blockhash, tx, alive, tip, leaf, codec>>

\* The ledger moves on: the endpoint's latest blockhash changes.
AdvanceLedger ==
  /\ tip < MaxBlockhash
  /\ tip' = tip + 1
  /\ UNCHANGED <<pc, args, steps, signers, fee_payer, instruction, recent_blockhash,
                 tx, result, returns, calls, alive, confirmed, leaf, codec>>

\* One invocation at a time, over every argument.
Next ==
  \/ \E i \in SoloInv : Call(i)
  \/ \E i \in SoloInv : GetRecentBlockhash(i)
  \/ \E i \in SoloInv : TrySign(i)
  \/ \E i \in SoloInv : SubmitTx(i)
  \/ AdvanceLedger

Spec == Init /\ [][Next]_vars

\* Two invocations running concurrently.
NextPair ==
  \/ \E i \in Inv : CallPair(i)
  \/ \E i \in Inv : GetRecentBlockhash(i)
  \/ \E i \in Inv : TrySign(i)
  \/ \E i \in Inv : SubmitTx(i)
  \/ AdvanceLedger

SpecPair == Init /\ [][NextPair]_vars

\* A document is handed to serialize_metadata_to_borsh.
Serialize ==
  /\ codec.pc = "idle"
  /\ \E metadata_json \in Documents :
       LET r == serialize_metadata_to_borsh(metadata_json)
       IN  codec' = [codec EXCEPT !.pc = IF r.ok THEN "serialized" ELSE "failed",
                                  !.metadata_json = metadata_json,
                                  !.serialized = r]
  /\ UNCHANGED <<pc, steps, result, returns, calls, alive, recent_blockhash, tx, locals, env>>

\* Its output is decoded the way mint_v1 decodes its metadata argument.
Decode ==
  /\ codec.pc = "serialized"
  /\ codec' = [codec EXCEPT !.pc = "decoded",
                            !.decoded = decode_metadata(codec.serialized.text)]
  /\ UNCHANGED <<pc, steps, result, returns, calls, alive, recent_blockhash, tx, locals, env>>

\* The codec on its own.
NextCodec ==
  \/ Serialize
  \/ Decode

SpecCodec == Init /\ [][NextCodec]_vars

\* ------------------------------------------------------------------ claims
Started(i) == pc[i] # "idle"
WellFormedPubkey(s) == Pubkey_from_str(s).ok
WellFormedSecret(s) == ~Keypair_from_base58_string(s).panicked
PubkeyOf(s) == Pubkey_from_str(s).pubkey
KeypairOf(s) == Keypair_from_base58_string(s).keypair
AllPubkeysWellFormed(a) == \A j \in 1 .. Len(a.pubkeys) : WellFormedPubkey(a.pubkeys[j])
AllSecretsWellFormed(a) == \A j \in 1 .. Len(a.secrets) : WellFormedSecret(a.secrets[j])
Count(seq, x) == Cardinality({j \in 1 .. Len(seq) : seq[j] = x})
SubmitCalls(i) == {j \in 1 .. Len(calls[i]) : calls[i][j].method = "send_and_confirm_transaction"}
FetchCalls(i) == {j \in 1 .. Len(calls[i]) : calls[i][j].method = "get_latest_blockhash"}
LastStep(i) == steps[i][Len(steps[i])]

\* C1: in create_tree_config, mint_v1 and transfer, a malformed public-key
\* argument makes the operation return InvalidPubkey, and the invocation has
\* made no network call: neither the blockhash fetch nor the submission.
C1_MalformedPubkeyNoNetworkCall ==
  \A i \in Inv :
    (Started(i) /\ ~AllPubkeysWellFormed(args[i])) =>
      /\ pc[i] = "done"
      /\ result[i].kind = "InvalidPubkey"
      /\ calls[i] = << >>
      /\ \A j \in 1 .. Len(steps[i]) : steps[i][j] = "parse_pubkey"

\* mint_v1 with the tree text "invalid_pubkey" and every other argument
\* valid has returned InvalidPubkey.
C1_Witness ==
  /\ args[1].op = "mint_v1"
  /\ args[1].pubkeys = <<"invalid_pubkey", PubkeyText(1), PubkeyText(2)>>
  /\ AllSecretsWellFormed(args[1])
  /\ args[1].metadata = SerializedTestDocument
  /\ result[1].kind = "InvalidPubkey"

\* A valid signature of key k over a message whose blockhash is bh.
FullySigned(t) ==
  /\ t.message.num_required_signatures >= 1
  /\ Len(t.signatures) = t.message.num_required_signatures
  /\ \A j \in 1 .. Len(t.signatures) :
       t.signatures[j] = [by |-> t.message.account_keys[j], bh |-> t.message.recent_blockhash]

\* C2: a transaction reaches submit_tx only after try_sign succeeded on it,
\* so what is submitted is fully signed; if signing fails the operation
\* returns an error without submitting; and the transaction is the one that
\* was submitted ever after.
C2_SignedBeforeSubmitted ==
  \A i \in Inv :
    /\ (pc[i] = "submit_tx" \/ SubmitCalls(i) # {}) =>
         /\ FullySigned(tx[i])
         /\ Count(steps[i], "try_sign") = 1
    /\ \A j \in SubmitCalls(i) :
         /\ calls[i][j].tx = tx[i]
         /\ \E l \in 1 .. Len(steps[i]) :
              steps[i][l] = "try_sign" /\ l < Len(steps[i]) /\ steps[i][l + 1] = "submit_tx"
    /\ (Started(i) /\ Len(steps[i]) > 0 /\ LastStep(i) = "try_sign" /\ ~FullySigned(tx[i])) =>
         /\ pc[i] = "done"
         /\ result[i].kind = "SerializationError"
         /\ SubmitCalls(i) = {}

\* A create-tree transaction signed by two different keys has been submitted.
C2_Witness ==
  /\ args[1].op = "create_tree_config"
  /\ SubmitCalls(1) # {}
  /\ Len(tx[1].signatures) = 2
  /\ FullySigned(tx[1])

ExpectedSigners(a) ==
  CASE a.op = "create_tree_config" -> <<KeypairOf(a.secrets[1]), KeypairOf(a.secrets[2])>>
    [] a.op = "mint_v1" -> <<KeypairOf(a.secrets[1])>>
    [] a.op = "transfer" -> <<KeypairOf(a.secrets[1]), KeypairOf(a.secrets[2])>>

\* The accounts the protocol requires to sign, from the arguments.
RequiredSigners(a) ==
  CASE a.op = "create_tree_config" -> {PubkeyOf(a.pubkeys[1]), PubkeyOf(a.pubkeys[2])}
    [] a.op = "mint_v1" -> {KeypairOf(a.secrets[1]).pubkey}
    [] a.op = "transfer" -> {KeypairOf(a.secrets[1]).pubkey, PubkeyOf(a.pubkeys[2])}

\* C3: the keypairs handed to try_sign are the payer's and the tree
\* creator's for create-tree, the payer's alone for mint, the payer's and the
\* leaf owner's for transfer; and the signer slots of the message are the
\* accounts the spec requires to sign (for mint the payer only, neither the
\* leaf owner nor the leaf delegate).
C3_SignersAreTheRequiredOnes ==
  \A i \in Inv :
    (Started(i) /\ instruction[i] # NoInstruction) =>
      /\ signers[i] = ExpectedSigners(args[i])
      /\ ("try_sign" \in Range(steps[i])) =>
           Range(SignedKeys([message |-> Message_new(instruction[i], fee_payer[i])]))
             = RequiredSigners(args[i])
      /\ FullySigned(tx[i]) =>
           {tx[i].signatures[j].by : j \in 1 .. Len(tx[i].signatures)}
             = {signers[i][j].pubkey : j \in 1 .. Len(signers[i])}

\* mint_v1 has signed with the payer alone although the leaf owner's secret
\* is another key and the leaf owner and delegate are other accounts.
C3_Witness ==
  /\ args[1].op = "mint_v1"
  /\ args[1].secrets = <<SecretText(1), SecretText(2)>>
  /\ args[1].pubkeys = <<PubkeyText(1), PubkeyText(2), PubkeyText(2)>>
  /\ FullySigned(tx[1])
  /\ Len(tx[1].signatures) = 1

SuppliedSigners(a) == {KeypairOf(a.secrets[j]).pubkey : j \in 1 .. Len(a.secrets)}

\* A create-tree invocation whose arguments all parse and whose two secrets
\* are not the keys of its payer and tree-creator accounts.
MissingSignature(i) ==
  /\ Started(i)
  /\ args[i].op = "create_tree_config"
  /\ AllPubkeysWellFormed(args[i])
  /\ AllSecretsWellFormed(args[i])
  /\ SuppliedSigners(args[i]) # RequiredSigners(args[i])

\* C4: a create-tree invocation with a required signature missing never
\* returns a confirmation identifier: once it has its blockhash it fails at
\* try_sign with SerializationError (or, had it been submitted, on
\* submission with RpcError).
C4_MissingSignatureNeverConfirmed ==
  \A i \in Inv :
    MissingSignature(i) =>
      /\ result[i].kind \in {"none", "SerializationError", "RpcError"}
      /\ tx[i] \notin confirmed
      /\ ("try_sign" \in Range(steps[i])) =>
           \/ pc[i] = "done" /\ result[i].kind = "SerializationError" /\ LastStep(i) = "try_sign"
           \/ pc[i] = "done" /\ result[i].kind = "RpcError" /\ LastStep(i) = "submit_tx"

\* create-tree signed by the payer keypair only, the tree creator being
\* another account, has failed at sign time.
C4_Witness ==
  /\ MissingSignature(1)
  /\ args[1].secrets = <<SecretText(1), SecretText(1)>>
  /\ args[1].pubkeys = <<PubkeyText(1), PubkeyText(2)>>
  /\ result[1] = Err("SerializationError", "not enough signers")

LocalSteps ==
  {"parse_pubkey", "parse_keypair", "BASE64.decode", "MetadataArgs::try_from_slice",
   "instruction"}

\* C5: the blockhash is fetched at most once per invocation and exactly once
\* in one that signs; the fetch comes after all parsing and instruction
\* building and is the step right before try_sign; and the blockhash handed
\* to try_sign, and signed over, is the one the endpoint answered to this
\* invocation's fetch.
C5_BlockhashFetchedOnceBeforeSigning ==
  \A i \in Inv :
    /\ Count(steps[i], "get_recent_blockhash") <= 1
    /\ Cardinality(FetchCalls(i)) = Count(steps[i], "get_recent_blockhash")
    /\ \A p \in 1 .. Len(steps[i]) :
         /\ steps[i][p] = "get_recent_blockhash" =>
              /\ p > 1
              /\ steps[i][p - 1] = "instruction"
              /\ \A l \in 1 .. (p - 1) : steps[i][l] \in LocalSteps
         /\ steps[i][p] = "try_sign" =>
              /\ p > 1
              /\ steps[i][p - 1] = "get_recent_blockhash"
              /\ calls[i][1].method = "get_latest_blockhash"
              /\ calls[i][1].answer.ok
              /\ recent_blockhash[i] = calls[i][1].answer.value
              /\ FullySigned(tx[i]) =>
                   tx[i].message.recent_blockhash = calls[i][1].answer.value
              /\ \A j \in 1 .. Len(tx[i].signatures) :
                   tx[i].signatures[j] # DefaultSignature =>
                     tx[i].signatures[j].bh = calls[i][1].answer.value

\* An invocation has signed over the blockhash it fetched after the ledger
\* had moved on from its first blockhash.
C5_Witness ==
  /\ FullySigned(tx[1])
  /\ calls[1][1].answer.value = 2
  /\ tx[1].message.recent_blockhash = 2

\* C6 as stated: the submission is retried when the endpoint reports rate
\* limiting, so an operation that returns the rate-limiting RpcError has
\* submitted more than once.
C6_RateLimitIsRetried ==
  \A i \in Inv :
    (pc[i] = "done" /\ LastStep(i) = "submit_tx"
       /\ result[i] = Err("RpcError", "rate limit")) =>
      Cardinality(SubmitCalls(i)) >= 2

\* C6, amended: each network call is made at most once per invocation, and
\* an endpoint failure, rate limiting included, ends the operation at once
\* with RpcError: no call follows a failed one, so no error kind is retried.
C6_SubmittedOnceNoRetry ==
  \A i \in Inv :
    /\ Cardinality(SubmitCalls(i)) <= 1
    /\ Cardinality(FetchCalls(i)) <= 1
    /\ \A j \in 1 .. Len(calls[i]) :
         ~calls[i][j].answer.ok =>
           /\ j = Len(calls[i])
           /\ pc[i] = "done"
           /\ result[i] = Err("RpcError", calls[i][j].answer.msg)

\* The endpoint answered the one submission with rate limiting and the
\* operation has returned that as its RpcError.
C6_Witness ==
  /\ pc[1] = "done"
  /\ Cardinality(SubmitCalls(1)) = 1
  /\ calls[1][Len(calls[1])].method = "send_and_confirm_transaction"
  /\ calls[1][Len(calls[1])].answer.msg = "rate limit"
  /\ result[1] = Err("RpcError", "rate limit")

\* C7: an invocation returns exactly one result, when it is done; the result
\* is a confirmation identifier only if the endpoint confirmed the submitted
\* transaction, and it is then that transaction's signature; a failed
\* blockhash fetch or submission yields RpcError with the endpoint's message.
C7_OneResultConfirmedOnlyByEndpoint ==
  \A i \in Inv :
    /\ returns[i] <= 1
    /\ pc[i] \in {"idle", "get_recent_blockhash", "try_sign", "submit_tx", "done"}
    /\ (pc[i] = "done") <=> (returns[i] = 1)
    /\ (returns[i] = 1) <=> (result[i] # NoResult)
    /\ result[i].kind = "Ok" =>
         /\ SubmitCalls(i) # {}
         /\ calls[i][Len(calls[i])].method = "send_and_confirm_transaction"
         /\ calls[i][Len(calls[i])].answer.ok
         /\ tx[i] \in confirmed
         /\ result[i].msg = Signature_to_string(tx[i].signatures[1])
    /\ \A j \in 1 .. Len(calls[i]) :
         ~calls[i][j].answer.ok => result[i] = Err("RpcError", calls[i][j].answer.msg)

\* A transfer has returned the signature of the transaction the endpoint
\* confirmed.
C7_Witness ==
  /\ args[1].op = "transfer"
  /\ pc[1] = "done"
  /\ result[1].kind = "Ok"
  /\ tx[1] \in confirmed

\* C8: parse_keypair answers every malformed secret with InvalidKeypair
\* "Invalid secret key" and the decoder's panic never aborts the process; so
\* an operation whose public keys parse returns InvalidKeypair for a
\* malformed payer (or second) secret, and an operation with a malformed
\* payer secret always returns an ordinary error.
C8_MalformedSecretIsAnOrdinaryError ==
  /\ alive
  /\ \A s \in MalformedSecretTexts :
       /\ ~parse_keypair(s).ok
       /\ ~parse_keypair(s).unwound
       /\ parse_keypair(s).error = Err("InvalidKeypair", "Invalid secret key")
  /\ \A i \in Inv :
       /\ pc[i] # "aborted"
       /\ (Started(i) /\ ~AllSecretsWellFormed(args[i])) =>
            /\ pc[i] = "done"
            /\ calls[i] = << >>
            /\ result[i].kind \in {"InvalidPubkey", "InvalidKeypair"}
            /\ AllPubkeysWellFormed(args[i]) =>
                 result[i] = Err("InvalidKeypair", "Invalid secret key")

\* create_tree_config with valid public keys and the payer secret
\* "invalid_secret_key" has returned InvalidKeypair.
C8_Witness ==
  /\ alive
  /\ args[1].op = "create_tree_config"
  /\ AllPubkeysWellFormed(args[1])
  /\ args[1].secrets = <<"invalid_secret_key", SecretText(2)>>
  /\ pc[1] = "done"
  /\ result[1].kind = "InvalidKeypair"

\* Two invocations that differ at most in their secret-key arguments, got
\* the same answers from the endpoint, and failed at the same step.
SameButSecrets(i, j) ==
  /\ Started(i) /\ Started(j)
  /\ [args[i] EXCEPT !.secrets = args[j].secrets] = args[j]
  /\ IsErr(result[i]) /\ IsErr(result[j])
  /\ steps[i] = steps[j]
  /\ Len(calls[i]) = Len(calls[j])
  /\ \A k \in 1 .. Len(calls[i]) : calls[i][k].answer = calls[j][k].answer

\* The error texts of the operations: none is made from a secret.
PublicMessages ==
  {"String is the wrong size", "Invalid Base58 string", "Invalid secret key",
   "Base64 decode error: Invalid byte",
   "Borsh deserialize error: Unexpected length of input",
   "keypair-pubkey mismatch", "not enough signers"} \cup EndpointErrors

\* C9 as stated: two invocations that differ only in their secret-key
\* arguments and fail at the same step return the same error message.
C9_SameStepSameMessage ==
  \A i \in Inv : \A j \in Inv :
    SameButSecrets(i, j) => result[i].msg = result[j].msg

\* C9, amended: no error message is made from a secret: every message is one
\* of the fixed texts or the endpoint's; a malformed secret always gives
\* "Invalid secret key"; and two invocations that differ only in their
\* secrets and fail at the same step return the same message, except at
\* try_sign, where the message is one of two fixed texts.
C9_NoSecretInMessages ==
  /\ \A i \in Inv :
       /\ IsErr(result[i]) => result[i].msg \in PublicMessages
       /\ result[i].kind = "InvalidKeypair" => result[i].msg = "Invalid secret key"
  /\ \A i \in Inv : \A j \in Inv :
       SameButSecrets(i, j) =>
         IF LastStep(i) = "try_sign"
           THEN {result[i].msg, result[j].msg}
                  \subseteq {"keypair-pubkey mismatch", "not enough signers"}
           ELSE result[i].msg = result[j].msg

\* Two invocations alike but for their malformed payer secrets have both
\* returned the same text.
C9_Witness ==
  /\ SameButSecrets(1, 2)
  /\ args[1].secrets[1] = "invalid_key"
  /\ args[2].secrets[1] = "invalid_secret_key"
  /\ result[1] = Err("InvalidKeypair", "Invalid secret key")
  /\ result[2] = result[1]

\* C10: the proof triple and the nonce of a transfer instruction are the
\* values the caller supplies for the leaf, its current root, data hash,
\* creator hash and nonce; the builder defaults none of them.
C10_ProofSuppliedByCaller ==
  \A i \in Inv :
    instruction[i].name = "Transfer" =>
      /\ instruction[i].data.root = leaf.root
      /\ instruction[i].data.data_hash = leaf.data_hash
      /\ instruction[i].data.creator_hash = leaf.creator_hash
      /\ instruction[i].data.nonce = leaf.nonce

\* ---------------------------------------------------- claims on the codec
\* The creators a document names, as the record is to hold them.
InputCreators(d) ==
  [j \in 1 .. Len(d.creators.items) |->
     [address |-> Pubkey_to_bytes(PubkeyOf(d.creators.items[j].address.str)),
      verified |-> d.creators.items[j].verified.bool,
      share |-> d.creators.items[j].share.num]]

\* C11: for every document serialize_metadata_to_borsh accepts, decoding
\* its output (base-64, then Borsh into MetadataArgs, as mint_v1 does)
\* succeeds and yields a record whose name, symbol, uri,
\* seller_fee_basis_points, creators (order, address, verified, share),
\* primary_sale_happened and is_mutable equal the document's.
C11_RoundTripPreservesFields ==
  codec.pc = "decoded" =>
    LET d == codec.metadata_json
        m == codec.decoded.metadata
    IN  /\ codec.decoded.ok
        /\ m.name = d.name.str
        /\ m.symbol = d.symbol.str
        /\ m.uri = d.uri.str
        /\ m.seller_fee_basis_points = d.seller_fee_basis_points.num
        /\ m.creators = InputCreators(d)
        /\ m.primary_sale_happened = d.primary_sale_happened.bool
        /\ m.is_mutable = d.is_mutable.bool

\* The document of the tests has gone through and come back, its fee of
\* 500 and its one creator with share 100 among the fields.
C11_Witness ==
  /\ codec.pc = "decoded"
  /\ codec.metadata_json = TestDocument
  /\ codec.decoded.ok
  /\ codec.decoded.metadata.seller_fee_basis_points = 500
  /\ Len(codec.decoded.metadata.creators) = 1
  /\ codec.decoded.metadata.creators[1].share = 100

\* The document matches the schema of MetadataInput: every required member
\* present with its JSON type, the numbers within their integer types.
SchemaValid(d) ==
  /\ d.json
  /\ d.name.kind = "string" /\ d.symbol.kind = "string" /\ d.uri.kind = "string"
  /\ d.seller_fee_basis_points.kind = "number"
  /\ d.seller_fee_basis_points.num \in 0 .. 65535
  /\ d.primary_sale_happened.kind = "bool" /\ d.is_mutable.kind = "bool"
  /\ d.creators.kind \in {"absent", "null", "array"}
  /\ \A j \in 1 .. Len(d.creators.items) :
       /\ d.creators.items[j].address.kind = "string"
       /\ d.creators.items[j].verified.kind = "bool"
       /\ d.creators.items[j].share.kind = "number"
       /\ d.creators.items[j].share.num \in 0 .. 255

MalformedCreatorAddress(d) ==
  \E j \in 1 .. Len(d.creators.items) : ~WellFormedPubkey(d.creators.items[j].address.str)

\* The messages that say the JSON could not be parsed.
JsonParseIndications ==
  {"JSON parse error: " \o detail :
     detail \in {"expected value"}
       \cup {kind \o ", expected " \o type :
               kind \in {"invalid type", "invalid value"},
               type \in {"a string", "a boolean", "u16", "u8"}}
       \cup {"missing field " \o field :
               field \in {"name", "symbol", "uri", "seller_fee_basis_points",
                          "primary_sale_happened", "is_mutable",
                          "address", "verified", "share"}}}

\* C12: serialize_metadata_to_borsh classifies its failures by cause: a
\* document that is not JSON or does not match the schema fails with
\* InvalidMetadata and a message that says the JSON could not be parsed; a
\* document that matches the schema and has a malformed creator address
\* fails with InvalidPubkey, not InvalidMetadata.
C12_FailuresClassifiedByCause ==
  codec.pc # "idle" =>
    LET d == codec.metadata_json
        r == codec.serialized
    IN  /\ ~SchemaValid(d) =>
             /\ ~r.ok
             /\ r.error.kind = "InvalidMetadata"
             /\ r.error.msg \in JsonParseIndications
        /\ SchemaValid(d) /\ MalformedCreatorAddress(d) =>
             /\ ~r.ok
             /\ r.error.kind = "InvalidPubkey"
        /\ SchemaValid(d) /\ ~MalformedCreatorAddress(d) => r.ok

\* The document of the tests with "invalid_pubkey" as its creator's address
\* has been refused with InvalidPubkey.
C12_Witness ==
  /\ codec.pc = "failed"
  /\ SchemaValid(codec.metadata_json)
  /\ Len(codec.metadata_json.creators.items) = 1
  /\ codec.metadata_json.creators.items[1].address.str = "invalid_pubkey"
  /\ codec.serialized.error.kind = "InvalidPubkey"

\* C13: serialize_metadata_to_borsh accepts a document only if its
\* seller_fee_basis_points is in 0 .. 10000 and every creator share is in
\* 0 .. 100, and rejects a document with a value outside those ranges.
\* (Violated: the fields are a u16 and a u8 with no further check, so a fee
\* of 10001 .. 65535 and a share of 101 .. 255 are accepted.)
C13_RangesEnforced ==
  codec.serialized.ok =>
    /\ codec.metadata_json.seller_fee_basis_points.num \in 0 .. 10000
    /\ \A j \in 1 .. Len(codec.metadata_json.creators.items) :
         codec.metadata_json.creators.items[j].share.num \in 0 .. 100

\* ---------------------------------------------- claims on concurrency
\* What an invocation running alone returns and submits, from its own
\* arguments and the endpoint's answers to its own calls.
AloneSigned(f, fetched, answers) ==
  LET signing == try_sign(Transaction_new_unsigned(Message_new(f.instruction, f.fee_payer)),
                          f.signers, fetched.hash)
  IN  IF ~signing.ok
        THEN [result |-> after_try_sign(signing).ret, tx |-> signing.tx, submitted |-> << >>]
        ELSE [result |-> submit_tx(answers[2]).ret, tx |-> signing.tx,
              submitted |-> << signing.tx >>]

AloneFetched(f, answers) ==
  IF f.ret # NoResult
    THEN [result |-> f.ret, tx |-> NoTransaction, submitted |-> << >>]
  ELSE IF ~get_recent_blockhash(answers[1]).ok
    THEN [result |-> get_recent_blockhash(answers[1]).error, tx |-> NoTransaction,
          submitted |-> << >>]
  ELSE AloneSigned(f, get_recent_blockhash(answers[1]), answers)

Alone(a, answers) == AloneFetched(Run(a), answers)

AnswersTo(i) == [j \in 1 .. Len(calls[i]) |-> calls[i][j].answer]
Submitted(i) == [j \in 1 .. Cardinality(SubmitCalls(i)) |-> calls[i][Len(calls[i])].tx]

\* C14: invocations share no mutable state: however two invocations
\* interleave, each one's result, the transaction it signed and the
\* transaction it submitted are what it returns, signs and submits running
\* alone with the same arguments and the same answers of the endpoint to its
\* own calls.
C14_ResultAsIfAlone ==
  \A i \in Inv :
    pc[i] = "done" =>
      /\ result[i] = Alone(args[i], AnswersTo(i)).result
      /\ tx[i] = Alone(args[i], AnswersTo(i)).tx
      /\ Submitted(i) = Alone(args[i], AnswersTo(i)).submitted

\* A create-tree and a mint have run interleaved, the mint fetching its
\* blockhash before the ledger moved and the create-tree after, and both
\* were confirmed.
C14_Witness ==
  /\ pc[1] = "done" /\ pc[2] = "done"
  /\ args[1].op = "create_tree_config" /\ args[2].op = "mint_v1"
  /\ result[1].kind = "Ok" /\ result[2].kind = "Ok"
  /\ calls[1][1].answer.value = 2 /\ calls[2][1].answer.value = 1

\* ------------------------------------------- claims on the operations
\* C15: the create-tree instruction is built with a tree-config address and
\* a Merkle-tree address of their own, distinct from the payer's and the
\* tree creator's public keys.
\* (Violated: create_tree_config has no such inputs and hands the payer's
\* key to the builder as the tree config and the tree creator's key as the
\* Merkle tree.)
C15_TreeAddressesAreTheirOwn ==
  \A i \in Inv :
    instruction[i].name = "CreateTreeConfig" =>
      /\ instruction[i].accounts[1].pubkey
           \notin {PubkeyOf(args[i].pubkeys[1]), PubkeyOf(args[i].pubkeys[2])}
      /\ instruction[i].accounts[2].pubkey
           \notin {PubkeyOf(args[i].pubkeys[1]), PubkeyOf(args[i].pubkeys[2])}

\* The steps of an operation in the order it takes them.
Repeat(x, n) == [j \in 1 .. n |-> x]
FullOrder(a) ==
  Repeat("parse_pubkey", Len(a.pubkeys)) \o Repeat("parse_keypair", Len(a.secrets))
  \o (IF a.op = "mint_v1" THEN <<"BASE64.decode", "MetadataArgs::try_from_slice">> ELSE << >>)
  \o <<"instruction", "get_recent_blockhash", "try_sign", "submit_tx">>

\* The kind of error each step fails with.
KindAt(step) ==
  CASE step = "parse_pubkey" -> "InvalidPubkey"
    [] step = "parse_keypair" -> "InvalidKeypair"
    [] step \in {"BASE64.decode", "MetadataArgs::try_from_slice"} -> "InvalidMetadata"
    [] step \in {"get_recent_blockhash", "submit_tx"} -> "RpcError"
    [] step = "try_sign" -> "SerializationError"
    [] OTHER -> "none"

\* The k-th step of invocation i, which it has taken, found a fault.
Fails(i, k) ==
  LET a == args[i]
      step == FullOrder(a)[k]
  IN  CASE step = "parse_pubkey" -> ~WellFormedPubkey(a.pubkeys[k])
        [] step = "parse_keypair" -> ~WellFormedSecret(a.secrets[k - Len(a.pubkeys)])
        [] step = "BASE64.decode" -> ~BASE64_decode(a.metadata).ok
        [] step = "MetadataArgs::try_from_slice" ->
             ~MetadataArgs_try_from_slice(BASE64_decode(a.metadata).bytes).ok
        [] step = "get_recent_blockhash" -> ~calls[i][1].answer.ok
        [] step = "try_sign" -> ~FullySigned(tx[i])
        [] step = "submit_tx" -> ~calls[i][2].answer.ok
        [] OTHER -> FALSE

\* C16: each operation takes its steps in one fixed order: the public keys
\* in argument order, the payer secret, the second secret (for mint the
\* leaf owner's, which never signs), for mint the base-64 and then the
\* Borsh decoding of the metadata, the blockhash fetch, signing, submission.
\* Every step before its last found no fault; it returns an error exactly
\* when its last step found one, of that step's kind (InvalidPubkey,
\* InvalidKeypair, InvalidMetadata, RpcError, SerializationError, RpcError),
\* and then takes no later step; it returns Ok only after all of them.
C16_FirstFailingCheckReturned ==
  \A i \in SoloInv :
    Started(i) =>
      /\ Len(steps[i]) \in 1 .. Len(FullOrder(args[i]))
      /\ steps[i] = SubSeq(FullOrder(args[i]), 1, Len(steps[i]))
      /\ \A k \in 1 .. Len(steps[i]) - 1 : ~Fails(i, k)
      /\ IsErr(result[i]) <=> Fails(i, Len(steps[i]))
      /\ IsErr(result[i]) => result[i].kind = KindAt(LastStep(i)) /\ pc[i] = "done"
      /\ result[i].kind = "Ok" <=>
           steps[i] = FullOrder(args[i]) /\ ~Fails(i, Len(steps[i]))

\* A mint whose leaf-owner secret is malformed and whose metadata is not
\* base-64 has returned InvalidKeypair after its five parsing steps, without
\* decoding the metadata or calling the endpoint.
C16_Witness ==
  /\ args[1].op = "mint_v1"
  /\ AllPubkeysWellFormed(args[1])
  /\ WellFormedSecret(args[1].secrets[1]) /\ ~WellFormedSecret(args[1].secrets[2])
  /\ args[1].metadata = NotBase64Text
  /\ steps[1] = <<"parse_pubkey", "parse_pubkey", "parse_pubkey",
                   "parse_keypair", "parse_keypair">>
  /\ result[1].kind = "InvalidKeypair"
  /\ calls[1] = << >>

====
